---- MODULE Spec2Model ----
(***************************************************************************)
(* A model of synchronizer.py: one-way periodic synchronisation of a       *)
(* replica directory tree with a source directory tree.                    *)
(*                                                                         *)
(* The two trees are disjoint (neither root lies inside the other).  A     *)
(* tree maps every relative path of a fixed universe to "none" (no entry), *)
(* "dir" (a directory) or the content of a file.  Symbolic links and log   *)
(* timestamps are not modelled.  One pass of synchronize_folders is a      *)
(* sequence of steps, one per directory yielded by os.walk and one per     *)
(* entry handled in a loop body; the order in which os.scandir lists the   *)
(* entries of a directory is arbitrary.                                    *)
(***************************************************************************)
EXTENDS Integers, Sequences, FiniteSets, TLC

VARIABLES
  src,      \* the source tree
  rep,      \* the replica tree
  pc,       \* position of the process: main, loop, forward, reverse, returned, sleep, exited, crashed
  pass,     \* number of passes started
  older,    \* number of lines the log file (and the console) held before the current pass
  done,     \* number of "Synchronization completed." lines among them
  log,      \* the lines the current pass has appended to the log file
  console,  \* the lines the current pass has printed on standard output
  fstack,   \* os.walk(source): pending subdirectories, one frame per yielded directory
  cur,      \* forward pass: files of the current source directory not yet handled
  rstack,   \* os.walk(replica, topdown=False): frames of listed, not yet finished directories
  err,      \* the exception that ended the process ("" when none)
  src0,     \* history: source tree when the current pass started
  rep0,     \* history: replica tree when the current pass started
  last,     \* history: the trees as the last completed pass left them (<<>> before)
  edits     \* number of external modifications of the source so far

vars == <<src, rep, pc, pass, older, done, log, console, fstack, cur, rstack, err, src0, rep0, last, edits>>

-----------------------------------------------------------------------------
(* Bounds *)

MaxPasses == 2

MaxEntries == 3

MaxEdits == 2

-----------------------------------------------------------------------------
(* The file system *)

Root == <<>>

Paths ==
  { <<"a.txt">>, <<"sub">>, <<"sub", "b.txt">>, <<"sub", "c.txt">>,
    <<"sub", "c.txt", "x">> }

Nodes == Paths \cup {Root}

Contents == {"hello", "world", "new"}

Parent(p) == SubSeq(p, 1, Len(p) - 1)

Children(p) == {q \in Paths : Parent(q) = p}

Ancestors(p) == {SubSeq(p, 1, n) : n \in 0 .. (Len(p) - 1)}

Descendants(p) == {q \in Paths : Len(q) > Len(p) /\ SubSeq(q, 1, Len(p)) = p}

IsFile(v) == v \in Contents

Entries(t) == {p \in Paths : t[p] # "none"}

NoTree == [p \in Nodes |-> "none"]

ValidTree(t) ==
  /\ t[Root] \in {"none", "dir"}
  /\ \A p \in Paths : t[p] # "none" => t[Parent(p)] = "dir"

Trees == {t \in [Nodes -> {"none", "dir"} \cup Contents] : ValidTree(t)}

\* os.path.exists
exists(t, p) == t[p] # "none"

\* os.scandir as os.walk uses it: the subdirectories and the other entries
DirsOf(t, p) == {q \in Children(p) : t[q] = "dir"}

FilesOf(t, p) == {q \in Children(p) : IsFile(t[q])}

\* os.makedirs(p) for a path that does not exist: every missing ancestor is
\* created too; it raises when an ancestor is not a directory
MakedirsOk(t, p) == \A a \in Ancestors(p) : t[a] \in {"none", "dir"}

\* a makedirs that creates nothing
makedirs_Nothing(t, p) == t

makedirs(t, p) ==
  [q \in Nodes |-> IF q \in (Ancestors(p) \cup {p}) /\ t[q] = "none" THEN "dir" ELSE t[q]]

\* a digest that does not depend on the content
calculate_hash_Constant(t, p) == <<"md5", "">>

\* hashlib.md5 over the whole content, read chunk by chunk; the digest is
\* taken to be collision free on the contents modelled
calculate_hash(t, p) == <<"md5", t[p]>>

\* open(file_path, "rb") raises on a directory and on a missing file
HashOk(t, p) == IsFile(t[p])

\* shutil.copy2(source_file, replica_file): raises when the destination's
\* parent is not a directory or the destination is a directory
Copy2Ok(s, r, f) == IsFile(s[f]) /\ r[Parent(f)] = "dir" /\ r[f] # "dir"

\* a move instead of a copy
copy2_Move(s, r, f) == [src |-> [s EXCEPT ![f] = "none"], rep |-> [r EXCEPT ![f] = s[f]]]

copy2(s, r, f) == [src |-> s, rep |-> [r EXCEPT ![f] = s[f]]]

\* a removal that removes nothing
remove_Nothing(t, f) == t

\* os.remove
remove(t, f) == [t EXCEPT ![f] = "none"]

\* a removal that takes the parent directory along
rmtree_Parent(t, d) ==
  [q \in Nodes |-> IF q = Parent(d) \/ q \in Descendants(Parent(d)) THEN "none" ELSE t[q]]

\* shutil.rmtree
rmtree(t, d) == [q \in Nodes |-> IF q = d \/ q \in Descendants(d) THEN "none" ELSE t[q]]

-----------------------------------------------------------------------------
(* Log lines *)

Line(k, p) == [kind |-> k, path |-> p]

\* the five lines main logs before the loop
StartupLines == 5

ActionKinds == {"replica_created", "folder_created", "file_copied", "file_removed", "folder_removed"}

\* a log file opened for writing instead of appending
log_message_Truncating(e) == console' = Append(console, e) /\ log' = <<e>>

\* log_message: print, then append to the log file
log_message(e) == console' = Append(console, e) /\ log' = Append(log, e)

\* log_message whose open() or write() of the log file raises after the print
log_message_fails(e) == console' = Append(console, e) /\ log' = log

Quiet == UNCHANGED <<console, log>>

-----------------------------------------------------------------------------
(* Steps of the process *)

Faults == {"none", "op", "log"}

\* an exception that is caught and dropped: the pass ends as if it had returned
Crash_Swallowed(kind) ==
  /\ pc' = "returned"
  /\ err' = kind
  /\ fstack' = <<>>
  /\ cur' = {}
  /\ rstack' = <<>>

\* an exception propagates: nothing catches it, the process ends
Crash(kind) ==
  /\ pc' = "crashed"
  /\ err' = kind
  /\ fstack' = <<>>
  /\ cur' = {}
  /\ rstack' = <<>>

\* A file-system operation followed by its log line.  ok: the operation is
\* possible on the trees as they are; otherwise it raises kind.  fault "op":
\* the operation raises an OSError of the environment (permission denied,
\* disk full) and changes nothing; fault "log": the operation succeeds and
\* the write to the log file raises.  Cont is where the pass continues.
Effect(fault, ok, kind, newSrc, newRep, e, Cont) ==
  IF ~ok
  THEN fault = "none" /\ UNCHANGED <<src, rep>> /\ Quiet /\ Crash(kind)
  ELSE CASE fault = "op"  -> UNCHANGED <<src, rep>> /\ Quiet /\ Crash("OSError")
         [] fault = "log" -> src' = newSrc /\ rep' = newRep /\ log_message_fails(e) /\ Crash("OSError")
         [] OTHER         -> src' = newSrc /\ rep' = newRep /\ log_message(e) /\ Cont

\* an entry for which nothing is done
NoEffect(fault, Cont) == fault = "none" /\ UNCHANGED <<src, rep>> /\ Quiet /\ Cont

\* finished frames of a walk are dropped
RECURSIVE FwdNormalize(_)
FwdNormalize(stk) ==
  IF stk = <<>> THEN <<>>
  ELSE IF stk[Len(stk)] = {} THEN FwdNormalize(SubSeq(stk, 1, Len(stk) - 1))
  ELSE stk

\* a listing that never descends into the subdirectories
RevFrame_NoDescent(t, d) ==
  [top |-> d, dirs |-> DirsOf(t, d), files |-> FilesOf(t, d), pending |-> {}]

RevFrame(t, d) ==
  [top |-> d, dirs |-> DirsOf(t, d), files |-> FilesOf(t, d), pending |-> DirsOf(t, d)]

FrameDone(fr) == fr.files = {} /\ fr.dirs = {}

RECURSIVE RevNormalize(_)
RevNormalize(stk) ==
  IF stk = <<>> THEN <<>>
  ELSE IF FrameDone(stk[Len(stk)]) THEN RevNormalize(SubSeq(stk, 1, Len(stk) - 1))
  ELSE stk

\* the reverse walk goes on, or the generator is exhausted and
\* synchronize_folders returns
RevAdvance(stk) ==
  LET n == RevNormalize(stk) IN
  /\ pc' = IF n = <<>> THEN "returned" ELSE "reverse"
  /\ rstack' = n
  /\ fstack' = <<>>
  /\ cur' = {}
  /\ err' = err

\* the forward walk goes on, or it is exhausted and os.walk(replica,
\* topdown=False) starts by listing the replica root as it is now
FwdAdvance(stk, files, r) ==
  IF files = {} /\ stk = <<>>
  THEN RevAdvance(<<RevFrame(r, Root)>>)
  ELSE /\ pc' = "forward"
       /\ fstack' = stk
       /\ cur' = files
       /\ rstack' = <<>>
       /\ err' = err

Top(stk) == stk[Len(stk)]

SetTop(stk, x) == [stk EXCEPT ![Len(stk)] = x]

\* a main that does not look for the source before it starts
main_NoCheck ==
  /\ pc = "main"
  /\ console' = console
  /\ log' = log
  /\ older' = older + StartupLines
  /\ pc' = "loop"
  /\ UNCHANGED <<src, rep, pass, done, fstack, cur, rstack, err, src0, rep0, last, edits>>

\* main, up to the loop
main ==
  /\ pc = "main"
  /\ IF ~exists(src, Root)
     THEN /\ console' = Append(console, Line("error", Root))
          /\ log' = log
          /\ pc' = "exited"
          /\ older' = older
     ELSE /\ console' = console
          /\ log' = log
          /\ older' = older + StartupLines
          /\ pc' = "loop"
  /\ UNCHANGED <<src, rep, pass, done, fstack, cur, rstack, err, src0, rep0, last, edits>>

\* synchronize_folders is called: the replica root is ensured
EnsureReplica(fault) ==
  /\ pc = "loop"
  /\ pass < MaxPasses
  /\ pass' = pass + 1
  /\ src0' = src
  /\ rep0' = rep
  /\ UNCHANGED <<older, done, last, edits>>
  /\ IF exists(rep, Root)
     THEN NoEffect(fault, FwdAdvance(<<{Root}>>, {}, rep))
     ELSE Effect(fault, TRUE, "OSError", src, makedirs(rep, Root),
                 Line("replica_created", Root),
                 FwdAdvance(<<{Root}>>, {}, makedirs(rep, Root)))

\* os.walk(source) yields the next directory; its counterpart is created
ForwardDir(fault) ==
  /\ pc = "forward"
  /\ cur = {}
  /\ fstack # <<>>
  /\ UNCHANGED <<pass, older, done, src0, rep0, last, edits>>
  /\ \E d \in Top(fstack) :
       LET rest == FwdNormalize(SetTop(fstack, Top(fstack) \ {d}))
           dirs == DirsOf(src, d)
           stk == IF dirs = {} THEN rest ELSE Append(rest, dirs)
       IN IF src[d] # "dir"
          THEN NoEffect(fault, FwdAdvance(rest, {}, rep))
          ELSE IF exists(rep, d)
               THEN NoEffect(fault, FwdAdvance(stk, FilesOf(src, d), rep))
               ELSE Effect(fault, MakedirsOk(rep, d), "NotADirectoryError",
                           src, makedirs(rep, d), Line("folder_created", d),
                           FwdAdvance(stk, FilesOf(src, d), makedirs(rep, d)))

\* a test that only looks for a missing replica file
NeedsCopy_MissingOnly(s, r, f) == ~exists(r, f)

\* a test that always copies
NeedsCopy_Always(s, r, f) == TRUE

\* the copy-if-different test of the forward pass
NeedsCopy(s, r, f) == ~exists(r, f) \/ calculate_hash(s, f) # calculate_hash(r, f)

\* one file of the current source directory
ForwardFile(fault) ==
  /\ pc = "forward"
  /\ cur # {}
  /\ UNCHANGED <<pass, older, done, src0, rep0, last, edits>>
  /\ \E f \in cur :
       LET files == cur \ {f} IN
       IF exists(rep, f) /\ ~(HashOk(src, f) /\ HashOk(rep, f))
       THEN fault = "none" /\ UNCHANGED <<src, rep>> /\ Quiet /\ Crash("IsADirectoryError")
       ELSE IF NeedsCopy(src, rep, f)
            THEN Effect(fault, Copy2Ok(src, rep, f), "NotADirectoryError",
                        copy2(src, rep, f).src, copy2(src, rep, f).rep,
                        Line("file_copied", f),
                        FwdAdvance(fstack, files, copy2(src, rep, f).rep))
            ELSE NoEffect(fault, FwdAdvance(fstack, files, rep))

\* os.walk(replica, topdown=False) lists a subdirectory before yielding its parent
ReverseDescend ==
  /\ pc = "reverse"
  /\ rstack # <<>>
  /\ Top(rstack).pending # {}
  /\ UNCHANGED <<src, rep, pass, older, done, src0, rep0, last, edits>>
  /\ Quiet
  /\ \E d \in Top(rstack).pending :
       LET fr == Top(rstack)
           below == SetTop(rstack, [fr EXCEPT !.pending = fr.pending \ {d}])
       IN RevAdvance(Append(below, RevFrame(rep, d)))

\* one file of the yielded replica directory
ReverseFile(fault) ==
  /\ pc = "reverse"
  /\ rstack # <<>>
  /\ Top(rstack).pending = {}
  /\ Top(rstack).files # {}
  /\ UNCHANGED <<pass, older, done, src0, rep0, last, edits>>
  /\ \E f \in Top(rstack).files :
       LET fr == Top(rstack)
           stk == SetTop(rstack, [fr EXCEPT !.files = fr.files \ {f}])
       IN IF ~exists(src, f)
          THEN Effect(fault, TRUE, "OSError", src, remove(rep, f),
                      Line("file_removed", f), RevAdvance(stk))
          ELSE NoEffect(fault, RevAdvance(stk))

\* one subdirectory of the yielded replica directory, after its files
ReverseDir(fault) ==
  /\ pc = "reverse"
  /\ rstack # <<>>
  /\ Top(rstack).pending = {}
  /\ Top(rstack).files = {}
  /\ Top(rstack).dirs # {}
  /\ UNCHANGED <<pass, older, done, src0, rep0, last, edits>>
  /\ \E d \in Top(rstack).dirs :
       LET fr == Top(rstack)
           stk == SetTop(rstack, [fr EXCEPT !.dirs = fr.dirs \ {d}])
       IN IF ~exists(src, d)
          THEN Effect(fault, TRUE, "OSError", src, rmtree(rep, d),
                      Line("folder_removed", d), RevAdvance(stk))
          ELSE NoEffect(fault, RevAdvance(stk))

\* a loop that sleeps without logging the pass as completed
Completed_NoMilestone ==
  /\ pc = "returned"
  /\ older' = older + Len(log)
  /\ done' = done
  /\ log' = <<>>
  /\ console' = <<>>
  /\ pc' = "sleep"
  /\ last' = <<[src |-> src, rep |-> rep]>>
  /\ src0' = src
  /\ rep0' = rep
  /\ UNCHANGED <<src, rep, pass, fstack, cur, rstack, err, edits>>

\* synchronize_folders returned: the pass is logged as completed, then sleep.
\* The lines of the pass are from now on counted in older
Completed ==
  /\ pc = "returned"
  /\ older' = older + Len(log) + 1
  /\ done' = done + 1
  /\ log' = <<>>
  /\ console' = <<>>
  /\ pc' = "sleep"
  /\ last' = <<[src |-> src, rep |-> rep]>>
  /\ src0' = src
  /\ rep0' = rep
  /\ UNCHANGED <<src, rep, pass, fstack, cur, rstack, err, edits>>

\* time.sleep returns
Wake ==
  /\ pc = "sleep"
  /\ pass < MaxPasses
  /\ pc' = "loop"
  /\ UNCHANGED <<src, rep, pass, older, done, log, console, fstack, cur, rstack, err, src0, rep0, last, edits>>

-----------------------------------------------------------------------------
(* The environment: the source tree is modified between two passes *)

EnvFrame ==
  /\ pc = "sleep"
  /\ pass < MaxPasses
  /\ edits < MaxEdits
  /\ edits' = edits + 1
  /\ UNCHANGED <<rep, pc, pass, older, done, log, console, fstack, cur, rstack, err, src0, rep0, last>>

\* a file is written: created, or its content replaced
EnvWrite ==
  /\ EnvFrame
  /\ \E p \in Paths, c \in Contents :
       /\ src[Parent(p)] = "dir"
       /\ src[p] # "dir"
       /\ src[p] # c
       /\ src' = [src EXCEPT ![p] = c]

\* a directory is made
EnvMkdir ==
  /\ EnvFrame
  /\ \E p \in Paths :
       /\ src[Parent(p)] = "dir"
       /\ src[p] = "none"
       /\ src' = [src EXCEPT ![p] = "dir"]

\* an entry is deleted with everything below it; the root too
EnvDelete ==
  /\ EnvFrame
  /\ \E p \in Nodes :
       /\ src[p] # "none"
       /\ src' = rmtree(src, p)

-----------------------------------------------------------------------------

Init ==
  /\ src \in Trees
  /\ rep \in Trees
  /\ Cardinality(Entries(src)) + Cardinality(Entries(rep)) <= MaxEntries
  /\ pc = "main"
  /\ pass = 0
  /\ log = <<>>
  /\ console = <<>>
  /\ fstack = <<>>
  /\ cur = {}
  /\ rstack = <<>>
  /\ err = ""
  /\ older = 0
  /\ done = 0
  /\ src0 = src
  /\ rep0 = rep
  /\ last = <<>>
  /\ edits = 0

synchronize_folders ==
  \/ \E fault \in Faults : EnsureReplica(fault)
  \/ \E fault \in Faults : ForwardDir(fault)
  \/ \E fault \in Faults : ForwardFile(fault)
  \/ ReverseDescend
  \/ \E fault \in Faults : ReverseFile(fault)
  \/ \E fault \in Faults : ReverseDir(fault)

Env == EnvWrite \/ EnvMkdir \/ EnvDelete

Next == main \/ synchronize_folders \/ Completed \/ Wake \/ Env

Spec == Init /\ [][Next]_vars

\* the steps of the process itself: it is single threaded and every call it
\* makes returns or raises, so it goes on as long as it has a step to take
Process == main \/ synchronize_folders \/ Completed \/ Wake

FairSpec == Spec /\ WF_vars(Process)

-----------------------------------------------------------------------------
(* The scenario of the specification's section 8 *)

\* source: a.txt = "hello", sub/b.txt = "world"
Scenario1 ==
  [p \in Nodes |->
     CASE p = Root -> "dir"
       [] p = <<"a.txt">> -> "hello"
       [] p = <<"sub">> -> "dir"
       [] p = <<"sub", "b.txt">> -> "world"
       [] OTHER -> "none"]

\* source after a.txt is deleted and sub/c.txt = "new" is added
Scenario2 ==
  [p \in Nodes |->
     CASE p = Root -> "dir"
       [] p = <<"sub">> -> "dir"
       [] p = <<"sub", "b.txt">> -> "world"
       [] p = <<"sub", "c.txt">> -> "new"
       [] OTHER -> "none"]

\* a replica directory that exists and holds nothing
EmptyDir == [p \in Nodes |-> IF p = Root THEN "dir" ELSE "none"]

\* the replica holds no entry: its root is an empty directory, or is not there
ScenarioInit ==
  /\ src = Scenario1
  /\ rep \in {EmptyDir, NoTree}
  /\ pc = "main"
  /\ pass = 0
  /\ older = 0
  /\ done = 0
  /\ log = <<>>
  /\ console = <<>>
  /\ fstack = <<>>
  /\ cur = {}
  /\ rstack = <<>>
  /\ err = ""
  /\ src0 = src
  /\ rep0 = rep
  /\ last = <<>>
  /\ edits = 0

ScenarioSpec == ScenarioInit /\ [][Next]_vars

FairScenarioSpec == ScenarioSpec /\ WF_vars(Process)

-----------------------------------------------------------------------------
(* Properties *)

InPass == pc \in {"forward", "reverse", "returned", "crashed"}

\* number of lines of the current pass of one of the kinds, about path p
CountAt(kinds, p) == Cardinality({i \in DOMAIN log : log[i].kind \in kinds /\ log[i].path = p})

\* number of lines of the current pass of one of the kinds
CountOf(kinds) == Cardinality({i \in DOMAIN log : log[i].kind \in kinds})

Removals == {"file_removed", "folder_removed"}

\* C1 (convergence): when a pass has completed without error, every file of
\* the source has a file with the same fingerprint at the same path of the
\* replica, and every entry of the replica has an entry at the same path
\* of the source.
C1_Convergence ==
  pc = "returned" =>
    /\ \A p \in Paths :
         IsFile(src[p]) =>
           IsFile(rep[p]) /\ calculate_hash(src, p) = calculate_hash(rep, p) /\ rep[p] = src[p]
    /\ \A p \in Paths : exists(rep, p) => exists(src, p)

\* a pass has completed that had a file to overwrite and an entry to delete
C1_Witness ==
  /\ pc = "returned"
  /\ \E p \in Paths : IsFile(src0[p]) /\ IsFile(rep0[p]) /\ rep0[p] # src0[p]
  /\ \E q \in Paths : exists(rep0, q) /\ ~exists(src0, q)

\* the current pass started from the trees exactly as the last pass left them
Untouched == last # <<>> /\ src0 = last[1].src /\ rep0 = last[1].rep

\* C2 (idempotence): in a pass that starts from the trees as the previous
\* completed pass left them, nothing is created, copied or removed, no line
\* is logged or printed, and no error is raised.
C2_Idempotence ==
  (InPass /\ Untouched) => (rep = rep0 /\ log = <<>> /\ console = <<>> /\ pc # "crashed")

\* a second pass over unchanged trees that hold a file in a subdirectory
C2_Witness ==
  /\ pc = "returned"
  /\ pass = 2
  /\ Untouched
  /\ \E p \in Paths : Len(p) = 2 /\ IsFile(src[p]) /\ IsFile(rep[p])

\* C3 (deletion correctness): when a pass has completed without error, every
\* entry the replica held at the start of the pass at a path where the source
\* held none is gone, and exactly one removal line of the pass names it.
C3_DeletionCorrectness ==
  pc = "returned" =>
    \A p \in Paths :
      (exists(rep0, p) /\ ~exists(src0, p)) => (~exists(rep, p) /\ CountAt(Removals, p) = 1)

\* a directory with something below it was in the replica only
C3_Witness ==
  /\ pc = "returned"
  /\ \E d \in Paths :
       /\ rep0[d] = "dir"
       /\ ~exists(src0, d)
       /\ \E q \in Descendants(d) : exists(rep0, q)

\* tree b is tree a with the content of file f changed and nothing else
OnlyContentChanged(a, b, f) ==
  /\ IsFile(a[f])
  /\ IsFile(b[f])
  /\ a[f] # b[f]
  /\ \A p \in Nodes \ {f} : a[p] = b[p]

\* C4 (copy on change): when, since the previous completed pass, the content
\* of exactly one source file has changed and nothing else, the pass logs
\* exactly one line, "file copied" for that file, and changes nothing else
\* in the replica.
C4_CopyOnChange ==
  (InPass /\ last # <<>> /\ rep0 = last[1].rep) =>
    \A f \in Paths :
      OnlyContentChanged(last[1].src, src0, f) =>
        /\ err \in {"", "OSError"}
        /\ pc = "returned" =>
             /\ log = <<Line("file_copied", f)>>
             /\ rep = [rep0 EXCEPT ![f] = src0[f]]

\* one file of several has changed
C4_Witness ==
  /\ pc = "returned"
  /\ last # <<>>
  /\ rep0 = last[1].rep
  /\ \E f \in Paths : OnlyContentChanged(last[1].src, src0, f)
  /\ \E g \in Paths : IsFile(src0[g]) /\ src0[g] = last[1].src[g]

\* C5 (the source is never mutated): no step of the process changes the
\* source tree; only the modifications made from outside (counted in edits)
\* change it.
C5_SourceNeverMutated == [][edits' = edits => src' = src]_vars

\* a pass that copied a file and then ended with an error
C5_Witness ==
  /\ pc = "crashed"
  /\ CountOf({"file_copied"}) > 0
  /\ src = src0

\* C6 (retry on the next tick): after an error has aborted a pass, the
\* process goes on: the scheduler can still start the next pass.
C6_RetryOnNextTick == (pc = "crashed" /\ pass < MaxPasses) => ENABLED Next

\* C7 (kind mismatch surfaces as an error): a pass that started with a
\* directory of the source at a path where the replica held a file does not
\* complete without error.
C7_KindMismatchIsAnError ==
  pc = "returned" => ~(\E p \in Paths : src0[p] = "dir" /\ IsFile(rep0[p]))

Kind(v) == IF IsFile(v) THEN "file" ELSE v

\* C8 (directories are mirrored): when a pass has completed without error,
\* every directory of the source, the root included, is a directory of the
\* replica, and both trees hold the same (path, kind) entries.
C8_DirectoriesMirrored ==
  pc = "returned" =>
    /\ \A p \in Nodes : src[p] = "dir" => rep[p] = "dir"
    /\ \A p \in Paths : Kind(src[p]) = Kind(rep[p])

\* C9 (startup error): when the source root does not exist at startup, main
\* prints the error and exits; no pass has run, the replica is as it was
\* (not created, not changed) and the log file holds no line.
C9_StartupError ==
  /\ (pass = 0 /\ pc # "main" /\ ~exists(src, Root)) => pc = "exited"
  /\ pc = "exited" =>
       /\ ~exists(src, Root)
       /\ pass = 0
       /\ done = 0
       /\ older = 0
       /\ log = <<>>
       /\ console = <<Line("error", Root)>>
       /\ rep = rep0
       /\ ~ENABLED Next

\* the process has exited and the replica root, missing, was not created
C9_Witness == pc = "exited" /\ ~exists(rep, Root) /\ ~exists(src, Root)

Creations == {"replica_created", "folder_created"}

\* the first pass of the scenario, from a replica that holds no entry
ScenarioPass1 == pc = "returned" /\ src0 = Scenario1 /\ Entries(rep0) = {}

\* the second pass of the scenario
ScenarioPass2 ==
  /\ pc = "returned"
  /\ last = <<[src |-> Scenario1, rep |-> Scenario1]>>
  /\ src0 = Scenario2
  /\ rep0 = Scenario1

\* what the scenario's second pass does
ScenarioPass2Result ==
  /\ rep = Scenario2
  /\ log = <<Line("file_copied", <<"sub", "c.txt">>), Line("file_removed", <<"a.txt">>)>>

\* C10 (scenario) as stated: from a replica that holds no entry, the first
\* pass leaves the replica equal to the source and logs exactly one "folder
\* created" and two "file copied"; the second pass removes a.txt, copies
\* sub/c.txt and logs these two lines only.
C10_ScenarioAsStated ==
  /\ ScenarioPass1 =>
       /\ rep = Scenario1
       /\ CountOf(Creations) = 1
       /\ CountOf({"file_copied"}) = 2
       /\ Len(log) = 3
  /\ ScenarioPass2 => ScenarioPass2Result

\* C10 (scenario) amended: the first pass leaves the replica equal to the
\* source and logs two "file copied"; it logs one "folder created" (for sub)
\* when the replica root is an empty directory, and two (the replica root,
\* then sub) when the replica root does not exist.  The second pass is as
\* stated.
C10_Scenario ==
  /\ ScenarioPass1 =>
       /\ rep = Scenario1
       /\ CountOf({"file_copied"}) = 2
       /\ CountAt({"folder_created"}, <<"sub">>) = 1
       /\ CountOf({"folder_created"}) = 1
       /\ CountOf({"replica_created"}) = (IF exists(rep0, Root) THEN 0 ELSE 1)
       /\ Len(log) = (IF exists(rep0, Root) THEN 3 ELSE 4)
  /\ ScenarioPass2 => ScenarioPass2Result

\* the second pass of the scenario has completed, two edits after the first
C10_Witness == ScenarioPass2 /\ pass = 2 /\ edits = 2


-----------------------------------------------------------------------------

\* C11 (scheduling): no pass starts before main has found the source, and
\* the first pass starts without a sleep before it; a pass starts only from
\* the top of the loop, when every earlier pass has completed and its
\* "completed" line is logged; the milestone is logged only when a pass has
\* returned, and the sleep follows it.  When the source exists at startup
\* the first pass starts; every pass started ends with an error or with its
\* milestone logged and the sleep; every sleep is followed by another pass
\* (up to MaxPasses passes).
C11_Scheduling ==
  /\ [](pass = 0 => (pc \in {"main", "loop", "exited"} /\ edits = 0))
  /\ [][/\ pass' # pass =>
             (pc = "loop" /\ pass' = pass + 1 /\ done = pass /\ log = <<>>
                /\ pc' \in {"forward", "reverse", "returned", "crashed"})
        /\ done' # done =>
             (pc = "returned" /\ done' = pass /\ done' = done + 1 /\ pc' = "sleep"
                /\ older' = older + Len(log) + 1)
        /\ (pc = "sleep" /\ pc' # "sleep") => (pc' = "loop" /\ UNCHANGED <<pass, done, older>>)
       ]_vars
  /\ (pc = "main" /\ exists(src, Root)) ~> (pass = 1)
  /\ \A n \in 0 .. (MaxPasses - 1) :
       (pc = "loop" /\ pass = n) ~> (pc = "crashed" \/ (pc = "sleep" /\ done = n + 1))
  /\ \A n \in 1 .. (MaxPasses - 1) : (pc = "sleep" /\ pass = n) ~> (pass = n + 1)

\* the second pass runs, after the first has completed and the sleep is over
C11_Witness == pc = "forward" /\ pass = 2 /\ done = 1 /\ older > StartupLines


\* C12 (copy-if-different): a step of the forward pass that handles source
\* file f copies it over the replica path, and logs "file copied", when the
\* replica holds no file there or a file with another fingerprint (unless
\* the step raises); when the fingerprints are equal the step changes
\* nothing, logs and prints nothing and raises nothing.
C12_CopyIfDifferent ==
  [][(pc = "forward" /\ cur # {}) =>
       \E f \in cur :
         /\ pc' = "forward" => cur' = cur \ {f}
         /\ IF IsFile(rep[f]) /\ calculate_hash(src, f) = calculate_hash(rep, f)
            THEN /\ rep' = rep
                 /\ log' = log
                 /\ console' = console
                 /\ pc' # "crashed"
            ELSE \/ pc' = "crashed"
                 \/ /\ rep' = [rep EXCEPT ![f] = src[f]]
                    /\ rep' # rep
                    /\ log' = Append(log, Line("file_copied", f))
    ]_vars

\* a pass has skipped a file with the same content and overwritten another
C12_Witness ==
  /\ pc = "returned"
  /\ \E f \in Paths : IsFile(src0[f]) /\ rep0[f] = src0[f] /\ CountAt(ActionKinds, f) = 0
  /\ \E g \in Paths :
       IsFile(src0[g]) /\ IsFile(rep0[g]) /\ rep0[g] # src0[g] /\ CountAt({"file_copied"}, g) = 1


\* the directories the reverse pass is about to check: the subdirectories of
\* the yielded replica directory, once os.walk has gone through all of them
AboutToCheck ==
  IF pc = "reverse" /\ rstack # <<>> /\ Top(rstack).pending = {}
  THEN Top(rstack).dirs
  ELSE {}

\* C13 (bottom-up reverse pass): in the log of a pass no creation or copy
\* follows a removal, and nothing is removed while the forward pass runs;
\* when the reverse pass comes to check a replica directory, every entry
\* below it has been checked (what is left below it has a source
\* counterpart), and a directory's removal line follows the removal lines
\* of everything that was below it.
C13_BottomUp ==
  /\ \A i, j \in DOMAIN log :
       (i < j /\ log[i].kind \in Removals) => log[j].kind \in Removals
  /\ pc = "forward" => CountOf(Removals) = 0
  /\ \A d \in AboutToCheck :
       \A q \in Descendants(d) : exists(rep, q) => exists(src, q)
  /\ \A i, j \in DOMAIN log :
       (i < j /\ log[i].kind = "folder_removed") => log[j].path \notin Descendants(log[i].path)

\* a pass has copied a file, then removed a file and then its directory
C13_Witness ==
  /\ pc = "returned"
  /\ CountOf({"file_copied"}) > 0
  /\ \E d \in Paths :
       /\ CountAt({"folder_removed"}, d) = 1
       /\ \E q \in Descendants(d) : CountAt(Removals, q) = 1


\* C14 (fail-fast): once an operation of a pass has raised, the error has
\* left synchronize_folders and main: the process takes no further step (no
\* create, copy or delete, no later pass) and the "completed" line of that
\* pass is not logged.
C14_FailFast ==
  /\ pc = "crashed" <=> err # ""
  /\ err # "" => (pass >= 1 /\ done = pass - 1 /\ ~ENABLED Next)

\* a pass has ended with an error after it had logged an action, with an
\* entry of the replica still to be removed
C14_Witness ==
  /\ pc = "crashed"
  /\ Len(log) > 0
  /\ \E p \in Paths : exists(rep, p) /\ ~exists(src, p)


ActionLines == {Line(k, p) : k \in ActionKinds, p \in Nodes}

\* line e says what turned replica r into replica r2
Describes(e, r, r2) ==
  CASE e.kind = "replica_created" -> e.path = Root /\ r[Root] = "none" /\ r2 = [r EXCEPT ![Root] = "dir"]
    [] e.kind = "folder_created"  -> r[e.path] = "none" /\ r2 = [r EXCEPT ![e.path] = "dir"]
    [] e.kind = "file_copied"     -> IsFile(src[e.path]) /\ r2 = [r EXCEPT ![e.path] = src[e.path]]
    [] e.kind = "file_removed"    -> IsFile(r[e.path]) /\ r2 = [r EXCEPT ![e.path] = "none"]
    [] e.kind = "folder_removed"  -> r[e.path] = "dir" /\ r2 = [r EXCEPT ![e.path] = "none"]
    [] OTHER -> FALSE

\* the log file is only appended to: no line is removed or rewritten (the
\* lines counted in older are never touched, the others are a prefix of the
\* new ones)
AppendOnly ==
  /\ older' >= older
  /\ older' + Len(log') >= older + Len(log)
  /\ older' = older => (Len(log') >= Len(log) /\ SubSeq(log', 1, Len(log)) = log)

\* a step of a pass that leaves the replica alone logs nothing
NoActionNoLine ==
  (rep' = rep /\ pc \in {"loop", "forward", "reverse"}) => (log' = log /\ older' = older)

C16_MissingReplicaRoot ==
  InPass =>
    IF exists(rep0, Root)
    THEN CountAt(Creations, Root) = 0
    ELSE IF pc = "crashed" /\ log = <<>>
         THEN Len(console) <= 1
         ELSE /\ exists(rep, Root)
              /\ log[1] = Line("replica_created", Root)
              /\ console[1] = Line("replica_created", Root)
              /\ CountAt(Creations, Root) = 1

\* a pass that had to create the replica root has walked a source with
\* entries and returned
C16_Witness ==
  /\ pc = "returned"
  /\ ~exists(rep0, Root)
  /\ Entries(src0) # {}
  /\ Entries(rep) = Entries(src0)


\* the replica-root check of the running pass, or of an earlier one, is over
RootChecked ==
  /\ pass >= 1
  /\ ~(pc = "crashed" /\ ~exists(rep0, Root) /\ console = <<>>)

\* C17 (replica root is never deleted): no step removes an existing replica
\* root, and once the replica-root check of a pass is over the replica root
\* exists in every later state, whatever the source contains.
C17_ReplicaRootKept ==
  /\ [](RootChecked => exists(rep, Root))
  /\ [][exists(rep, Root) => exists(rep', Root)]_vars

\* the reverse pass has removed everything below the replica root
C17_Witness ==
  /\ pc = "returned"
  /\ CountOf(Removals) >= 2
  /\ Entries(rep) = {}
  /\ exists(rep, Root)


\* the removal lines of sq about the paths of S
RemovalLines(sq, S) ==
  Cardinality({i \in DOMAIN sq : sq[i].kind \in Removals /\ sq[i].path \in S})

Subtree(t, d) == {q \in Descendants(d) \cup {d} : exists(t, q)}

\* C18 (a removed folder is already empty): a step that removes a replica
\* directory is a step of the reverse pass on a directory without source
\* counterpart; everything below the directory is gone by then, and each
\* entry that was below it at the start of the pass has its own removal
\* line earlier in the log of the pass.  A subtree of n entries so gives n
\* removal lines on the console, and n in the log file unless the write of
\* the last one raises.
C18_RemovedFolderIsEmpty ==
  [][\A d \in Paths :
       (rep[d] = "dir" /\ rep'[d] = "none") =>
          /\ pc = "reverse"
          /\ ~exists(src, d)
          /\ \A q \in Descendants(d) :
               /\ ~exists(rep, q)
               /\ exists(rep0, q) => (CountAt({"file_removed", "folder_removed"}, q) = 1
                                        /\ RemovalLines(console, {q}) = 1)
               /\ ~exists(rep0, q) => CountAt(ActionKinds, q) = 0
          /\ RemovalLines(console', Subtree(rep0, d)) = Cardinality(Subtree(rep0, d))
          /\ \/ RemovalLines(log', Subtree(rep0, d)) = Cardinality(Subtree(rep0, d))
             \/ pc' = "crashed" /\ log' = log
    ]_vars

\* a folder with two entries below it has been removed: three removal lines
C18_Witness ==
  /\ pc \in {"reverse", "returned"}
  /\ \E d \in Paths :
       /\ rep0[d] = "dir"
       /\ ~exists(rep, d)
       /\ Cardinality(Subtree(rep0, d)) = 3
       /\ RemovalLines(log, Subtree(rep0, d)) = 3


\* the running pass started without a source root
SourceVanished == InPass /\ ~exists(src0, Root)

\* C19 (source vanishing after startup): the source root is looked for once,
\* before the loop, so a pass without source root is a later pass.  It
\* raises no error of its own (the only errors are those of a failing
\* removal or log write), it can always go on, it finds no source entry
\* (nothing is created or copied), and when it returns every entry of the
\* replica has been removed and logged, the empty replica root is left, and
\* the pass is logged as completed.
C19_SourceVanished ==
  /\ pass = 1 /\ InPass => exists(src0, Root)
  /\ SourceVanished =>
       /\ pass >= 2
       /\ err \in {"", "OSError"}
       /\ cur = {}
       /\ CountOf(Creations \cup {"file_copied"}) = 0
       /\ pc \in {"forward", "reverse"} => ENABLED (synchronize_folders /\ pc' # "crashed")
       /\ pc = "returned" =>
            /\ Entries(rep) = {}
            /\ exists(rep, Root)
            /\ Len(log) = Cardinality(Entries(rep0))
            /\ \A q \in Entries(rep0) : CountAt(Removals, q) = 1
            /\ ENABLED Completed

\* a replica with a file in a folder has been emptied by a pass without source
C19_Witness ==
  /\ pc = "returned"
  /\ pass = 2
  /\ ~exists(src, Root)
  /\ Entries(rep) = {}
  /\ \E d \in Paths : rep0[d] = "dir" /\ \E q \in Descendants(d) : IsFile(rep0[q])

====
